---------------------------- MODULE Spec2Model ----------------------------
(***************************************************************************)
(* A model of the DNP3 codec of icssploit (src/src/protocols/dnp3.py), of   *)
(* its DNP3 client (src/src/modules/clients/dnp3_client.py) and of the      *)
(* ClientManager (src/src/client_manager.py).                               *)
(*                                                                         *)
(* Byte strings are sequences of naturals in 0..255.  A Python call that   *)
(* may raise is modelled by a record [raised, exc, value]: exc is the      *)
(* exception (NoExc when none was raised) and value the returned value.    *)
(* A Python dict is a record; "key in d" is key \in DOMAIN d.              *)
(***************************************************************************)
EXTENDS Integers, Sequences, FiniteSets, TLC

VARIABLES
    pc,         \* which codec operation produced the current state
    payload,    \* bytes handed to calculate_crc / add_crc_to_frame
    request,    \* arguments of the last create_read_request call
    header,     \* header object handed to the last pack()
    wire,       \* bytes produced by the encoder (possibly altered in transit)
    flipped,    \* index of the bit altered in transit, -1 if none
    cut,        \* number of trailing bytes lost in transit, 0 if none
    result,     \* value returned by the last decoding operation
    self,       \* fields of the DNP3Client object
    cpc,        \* "ready", or "returned" after a client method returned
    call,       \* the last client call: arguments, peer behaviour, outcome
    PYDNP3_AVAILABLE,   \* whether "import pydnp3" succeeded when the module loaded
    clients,    \* ClientManager.clients: the dict in insertion order
    current_client,     \* ClientManager.current_client: an instance, or None
    instances,  \* number of client instances constructed so far
    mcall,      \* the last ClientManager call: arguments and outcome
    tcall,      \* per thread: the codec call it runs, and the value it returned
    frames      \* activation records: the locals of the running codec calls

codecVars == <<pc, payload, request, header, wire, flipped, cut, result>>
clientVars == <<self, cpc, call, PYDNP3_AVAILABLE>>
managerVars == <<clients, current_client, instances, mcall>>
threadVars == <<tcall, frames>>
vars == <<pc, payload, request, header, wire, flipped, cut, result,
         self, cpc, call, PYDNP3_AVAILABLE,
         clients, current_client, instances, mcall, tcall, frames>>

-----------------------------------------------------------------------------
(* Bounds of the model *)

MaxLen == 18            \* longest payload handed to add_crc_to_frame
MaxObjects == 2         \* longest object list handed to create_read_request
MaxRangeLen == 9        \* longest range field handed to DNP3ObjectHeader.pack
MaxInstances == 3       \* most client instances a ClientManager constructs

-----------------------------------------------------------------------------
(* Python helpers *)

Min(a, b) == IF a < b THEN a ELSE b

\* data[a:b] on a byte string, 0-based, clamped as Python slicing is
Slice(data, a, b) ==
    LET hi == Min(b, Len(data))
    IN  IF a >= hi THEN <<>> ELSE SubSeq(data, a + 1, hi)

\* a & b, a ^ b and a | b on naturals, bit by bit from the low end
BitAnd[a \in Nat, b \in Nat] ==
    IF a = 0 \/ b = 0 THEN 0
    ELSE (a % 2) * (b % 2) + 2 * BitAnd[a \div 2, b \div 2]

BitXor[a \in Nat, b \in Nat] ==
    IF a = 0 THEN b
    ELSE IF b = 0 THEN a
    ELSE (((a % 2) + (b % 2)) % 2) + 2 * BitXor[a \div 2, b \div 2]

BitOr[a \in Nat, b \in Nat] ==
    IF a = 0 THEN b
    ELSE IF b = 0 THEN a
    ELSE (IF a % 2 = 1 \/ b % 2 = 1 THEN 1 ELSE 0) + 2 * BitOr[a \div 2, b \div 2]

NoExc == [type |-> "None", msg |-> "", block |-> -1, expected |-> -1, got |-> -1]
Returned(v) == [raised |-> FALSE, exc |-> NoExc, value |-> v]
Raised(e) == [raised |-> TRUE, exc |-> e, value |-> <<>>]
StructError == [type |-> "struct.error", msg |-> "", block |-> -1, expected |-> -1, got |-> -1]
ValueError(m, b, e, g) == [type |-> "ValueError", msg |-> m, block |-> b, expected |-> e, got |-> g]

\* mutant of UnpackH: the two bytes read high byte first ('>H')
UnpackH_big_endian(b) == 256 * b[1] + b[2]

\* mutant of PackH: the two bytes written high byte first ('>H')
PackH_big_endian(x) == <<(x \div 256), (x % 256)>>

\* struct.pack('<H', x) and struct.unpack('<H', b)[0]
PackH(x) == <<(x % 256), (x \div 256)>>
UnpackH(b) == b[1] + 256 * b[2]

-----------------------------------------------------------------------------
(* DNP3Utils: CRC engine *)

CRC_POLY == 42684       \* 0xA6BC

\* the inner loop "for _ in range(8)", n passes of it
crc_bits[crc \in Nat, n \in 0..8] ==
    IF n = 0 THEN crc
    ELSE crc_bits[IF BitAnd[crc, 1] # 0
                  THEN BitXor[crc \div 2, CRC_POLY]
                  ELSE crc \div 2, n - 1]

\* the outer loop "for byte in data"; crc_after[k] is crc after k bytes
calculate_crc(data) ==
    LET crc_after[k \in 0..Len(data)] ==
            IF k = 0 THEN 0
            ELSE crc_bits[BitXor[crc_after[k - 1], data[k]], 8]
    IN  BitAnd[crc_after[Len(data)], 65535]

RECURSIVE add_crc_blocks(_, _, _)
add_crc_blocks(data, i, acc) ==
    IF i >= Len(data) THEN acc
    ELSE LET block == Slice(data, i, i + 16)
         IN  add_crc_blocks(data, i + 16,
                            acc \o block \o PackH(calculate_crc(block)))

\* mutant of add_crc_to_frame: one CRC over the whole frame at its end
add_crc_to_frame_single_crc(data) == data \o PackH(calculate_crc(data))

add_crc_to_frame(data) == add_crc_blocks(data, 0, <<>>)

\* mutant of remove_crc_blocks: the final, shorter block is stripped of its
\* two CRC bytes without recomputing the CRC
RECURSIVE remove_crc_blocks_final_unverified(_, _, _)
remove_crc_blocks_final_unverified(data, i, acc) ==
    IF ~(i < Len(data)) THEN Returned(acc)
    ELSE IF i + 18 <= Len(data)
    THEN LET block == Slice(data, i, i + 16)
             expected_crc == UnpackH(Slice(data, i + 16, i + 18))
             calculated_crc == calculate_crc(block)
         IN  IF calculated_crc # expected_crc
             THEN Raised(ValueError("CRC mismatch at block", i \div 18,
                                    expected_crc, calculated_crc))
             ELSE remove_crc_blocks_final_unverified(data, i + 18, acc \o block)
    ELSE LET remaining == Len(data) - i
         IN  IF remaining >= 2
             THEN Returned(acc \o Slice(data, i, i + remaining - 2))
             ELSE Returned(acc)

RECURSIVE remove_crc_blocks(_, _, _)
remove_crc_blocks(data, i, acc) ==
    IF ~(i < Len(data)) THEN Returned(acc)
    ELSE IF i + 18 <= Len(data)
    THEN LET block == Slice(data, i, i + 16)
             expected_crc == UnpackH(Slice(data, i + 16, i + 18))
             calculated_crc == calculate_crc(block)
         IN  IF calculated_crc # expected_crc
             THEN Raised(ValueError("CRC mismatch at block", i \div 18,
                                    expected_crc, calculated_crc))
             ELSE remove_crc_blocks(data, i + 18, acc \o block)
    ELSE LET remaining == Len(data) - i
         IN  IF remaining >= 2
             THEN LET block == Slice(data, i, i + remaining - 2)
                      expected_crc == UnpackH(Slice(data, i + remaining - 2, i + remaining))
                      calculated_crc == calculate_crc(block)
                  IN  IF calculated_crc # expected_crc
                      THEN Raised(ValueError("CRC mismatch in final block", -1,
                                             expected_crc, calculated_crc))
                      ELSE Returned(acc \o block)
             ELSE Returned(acc)

remove_crc_from_frame(data) == remove_crc_blocks(data, 0, <<>>)

-----------------------------------------------------------------------------
(* Header codecs *)

IsByte(x) == x \in 0..255
IsWord(x) == x \in 0..65535
BoolInt(b) == IF b THEN 1 ELSE 0

\* struct.pack('<BBBBHH', ...)
DNP3DataLinkHeader_pack(h) ==
    IF /\ IsByte(h.start1) /\ IsByte(h.start2) /\ IsByte(h.length)
       /\ IsByte(h.control) /\ IsWord(h.destination) /\ IsWord(h.source)
    THEN Returned(<<h.start1, h.start2, h.length, h.control>>
                  \o PackH(h.destination) \o PackH(h.source))
    ELSE Raised(StructError)

\* struct.unpack('<BBBBHH', data[:8])
DNP3DataLinkHeader_unpack(data) ==
    LET d == Slice(data, 0, 8)
    IN  IF Len(d) # 8 THEN Raised(StructError)
        ELSE Returned([start1 |-> d[1], start2 |-> d[2], length |-> d[3],
                       control |-> d[4],
                       destination |-> UnpackH(Slice(d, 4, 6)),
                       source |-> UnpackH(Slice(d, 6, 8))])

DNP3TransportHeader_pack(h) ==
    LET control == BitOr[BitOr[BoolInt(h.fin) * 128, BoolInt(h.fir) * 64],
                         BitAnd[h.sequence, 63]]
    IN  IF IsByte(control) THEN Returned(<<control>>) ELSE Raised(StructError)

DNP3TransportHeader_unpack(data) ==
    LET d == Slice(data, 0, 1)
    IN  IF Len(d) # 1 THEN Raised(StructError)
        ELSE Returned([fin |-> BitAnd[d[1], 128] # 0,
                       fir |-> BitAnd[d[1], 64] # 0,
                       sequence |-> BitAnd[d[1], 63]])

DNP3ApplicationHeader_pack(h) ==
    IF IsByte(h.control) /\ IsByte(h.function_code)
    THEN Returned(<<h.control, h.function_code>>)
    ELSE Raised(StructError)

DNP3ApplicationHeader_unpack(data) ==
    LET d == Slice(data, 0, 2)
    IN  IF Len(d) # 2 THEN Raised(StructError)
        ELSE Returned([control |-> d[1], function_code |-> d[2]])

\* mutant of _get_range_field_length: the 16-bit absolute bucket (0x40)
\* answers 4, the length of the 16-bit start/stop bucket
_get_range_field_length_0x40_as_4(qualifier) ==
    LET qualifier_type == BitAnd[qualifier, 112]
    IN  IF qualifier_type = 0 THEN 2
        ELSE IF qualifier_type = 16 THEN 4
        ELSE IF qualifier_type = 32 THEN 8
        ELSE IF qualifier_type = 48 THEN 1
        ELSE IF qualifier_type = 64 THEN 4
        ELSE IF qualifier_type = 80 THEN 4
        ELSE IF qualifier_type = 96 THEN 0
        ELSE 0

_get_range_field_length(qualifier) ==
    LET qualifier_type == BitAnd[qualifier, 112]
    IN  IF qualifier_type = 0 THEN 2
        ELSE IF qualifier_type = 16 THEN 4
        ELSE IF qualifier_type = 32 THEN 8
        ELSE IF qualifier_type = 48 THEN 1
        ELSE IF qualifier_type = 64 THEN 2
        ELSE IF qualifier_type = 80 THEN 4
        ELSE IF qualifier_type = 96 THEN 0
        ELSE 0

DNP3ObjectHeader_pack(h) ==
    IF IsByte(h.group) /\ IsByte(h.variation) /\ IsByte(h.qualifier)
    THEN Returned(<<h.group, h.variation, h.qualifier>> \o h.range_field)
    ELSE Raised(StructError)

\* mutant of DNP3ObjectHeader_unpack: the range field is sliced as
\* data[3:range_length], its end not offset by the three fixed bytes
DNP3ObjectHeader_unpack_short_slice(data) ==
    IF Len(data) < 3
    THEN Raised(ValueError("Insufficient data for object header", -1, -1, -1))
    ELSE LET range_length == _get_range_field_length(data[3])
         IN  IF Len(data) < 3 + range_length
             THEN Raised(ValueError("Insufficient data for range field", -1, -1, -1))
             ELSE Returned(<<[group |-> data[1], variation |-> data[2],
                              qualifier |-> data[3],
                              range_field |-> Slice(data, 3, range_length)],
                             3 + range_length>>)

\* mutant of DNP3ObjectHeader_unpack: the test of the range field's length
\* is missing, a short buffer yields a header with the bytes that are there
DNP3ObjectHeader_unpack_no_range_test(data) ==
    IF Len(data) < 3
    THEN Raised(ValueError("Insufficient data for object header", -1, -1, -1))
    ELSE LET range_length == _get_range_field_length(data[3])
         IN  Returned(<<[group |-> data[1], variation |-> data[2],
                         qualifier |-> data[3],
                         range_field |-> Slice(data, 3, 3 + range_length)],
                        3 + range_length>>)

\* returns (header, bytes_consumed)
DNP3ObjectHeader_unpack(data) ==
    IF Len(data) < 3
    THEN Raised(ValueError("Insufficient data for object header", -1, -1, -1))
    ELSE LET range_length == _get_range_field_length(data[3])
         IN  IF Len(data) < 3 + range_length
             THEN Raised(ValueError("Insufficient data for range field", -1, -1, -1))
             ELSE Returned(<<[group |-> data[1], variation |-> data[2],
                              qualifier |-> data[3],
                              range_field |-> Slice(data, 3, 3 + range_length)],
                             3 + range_length>>)

-----------------------------------------------------------------------------
(* DNP3Utils: frame assembler and parser *)

READ == 1               \* DNP3FunctionCode.READ
WRITE == 2              \* DNP3FunctionCode.WRITE
COLD_RESTART == 13      \* DNP3FunctionCode.COLD_RESTART
WARM_RESTART == 14      \* DNP3FunctionCode.WARM_RESTART
ENABLE_UNSOLICITED == 20    \* DNP3FunctionCode.ENABLE_UNSOLICITED
RESPONSE == 129         \* DNP3FunctionCode.RESPONSE
UNSOLICITED_RESPONSE == 130

\* struct.pack('<BB', start_idx, stop_idx)
PackBB(a, b) == IF IsByte(a) /\ IsByte(b) THEN Returned(<<a, b>>) ELSE Raised(StructError)

\* the loop "for group, variation, start_idx, stop_idx in objects"
RECURSIVE add_object_headers(_, _, _)
add_object_headers(objects, k, app_data) ==
    IF k > Len(objects) THEN Returned(app_data)
    ELSE LET o == objects[k]
             range_field == PackBB(o[3], o[4])
         IN  IF range_field.raised THEN range_field
             ELSE LET obj_header == DNP3ObjectHeader_pack(
                                        [group |-> o[1], variation |-> o[2],
                                         qualifier |-> 0,
                                         range_field |-> range_field.value])
                  IN  IF obj_header.raised THEN obj_header
                      ELSE add_object_headers(objects, k + 1,
                                              app_data \o obj_header.value)

create_read_request(source, destination, objects) ==
    LET app_header == DNP3ApplicationHeader_pack([control |-> 192, function_code |-> READ])
        app_data == add_object_headers(objects, 1, app_header.value)
    IN  IF app_data.raised THEN app_data
        ELSE LET transport_header == DNP3TransportHeader_pack(
                                         [fin |-> TRUE, fir |-> TRUE, sequence |-> 0])
                 transport_data == transport_header.value \o app_data.value
                 dl_header == DNP3DataLinkHeader_pack(
                                  [start1 |-> 5, start2 |-> 100,
                                   length |-> Len(transport_data),
                                   control |-> 68,
                                   destination |-> destination,
                                   source |-> source])
             IN  IF dl_header.raised THEN dl_header
                 ELSE Returned(add_crc_to_frame(dl_header.value \o transport_data))

\* the loop "while offset < len(clean_data)": the body ends in "break" on
\* both paths, so it runs at most once
parse_objects(clean_data, offset) ==
    IF ~(offset < Len(clean_data)) THEN <<>>
    ELSE LET r == DNP3ObjectHeader_unpack(Slice(clean_data, offset, Len(clean_data)))
         IN  IF r.raised THEN <<>>
             ELSE <<[group |-> r.value[1].group,
                     variation |-> r.value[1].variation,
                     qualifier |-> r.value[1].qualifier]>>

ParseError(m, e) == [error |-> [msg |-> m, exc |-> e]]

\* the three fixed headers and the object list of a frame of 11 bytes or more
parse_headers(clean_data) ==
    LET dl_header == DNP3DataLinkHeader_unpack(Slice(clean_data, 0, 8)).value
        transport_header == DNP3TransportHeader_unpack(Slice(clean_data, 8, 9)).value
        app_header == DNP3ApplicationHeader_unpack(Slice(clean_data, 9, 11)).value
    IN  [data_link |-> [source |-> dl_header.source,
                        destination |-> dl_header.destination,
                        control |-> dl_header.control],
         transport |-> [fin |-> transport_header.fin,
                        fir |-> transport_header.fir,
                        sequence |-> transport_header.sequence],
         application |-> [control |-> app_header.control,
                          function_code |-> app_header.function_code],
         objects |-> parse_objects(clean_data, 11)]

\* mutant of parse_response: the three length tests are missing, so a short
\* frame reaches struct.unpack and ends in the catch-all handler
parse_response_no_length_tests(data) ==
    LET clean == remove_crc_from_frame(data)
        clean_data == clean.value
        dl_header == DNP3DataLinkHeader_unpack(Slice(clean_data, 0, 8))
        transport_header == DNP3TransportHeader_unpack(Slice(clean_data, 8, 9))
        app_header == DNP3ApplicationHeader_unpack(Slice(clean_data, 9, 11))
    IN  IF clean.raised THEN ParseError("Parse error", clean.exc)
        ELSE IF dl_header.raised THEN ParseError("Parse error", dl_header.exc)
        ELSE IF transport_header.raised THEN ParseError("Parse error", transport_header.exc)
        ELSE IF app_header.raised THEN ParseError("Parse error", app_header.exc)
        ELSE parse_headers(clean_data)

\* mutant of parse_response: no outer try/except, a CRC mismatch propagates
\* to the caller as an exception
parse_response_uncaught(data) ==
    LET clean == remove_crc_from_frame(data)
        clean_data == clean.value
    IN  IF clean.raised THEN clean
        ELSE IF Len(clean_data) < 8
        THEN ParseError("Frame too short for data link header", NoExc)
        ELSE IF Len(clean_data) < 9
        THEN ParseError("Frame too short for transport header", NoExc)
        ELSE IF Len(clean_data) < 11
        THEN ParseError("Frame too short for application header", NoExc)
        ELSE parse_headers(clean_data)

\* mutant of parse_response: the application-header length test is
\* "<= 11", so a frame of exactly the 11 header bytes is too short
parse_response_11_too_short(data) ==
    LET clean == remove_crc_from_frame(data)
        clean_data == clean.value
    IN  IF clean.raised THEN ParseError("Parse error", clean.exc)
        ELSE IF Len(clean_data) < 8
        THEN ParseError("Frame too short for data link header", NoExc)
        ELSE IF Len(clean_data) < 9
        THEN ParseError("Frame too short for transport header", NoExc)
        ELSE IF Len(clean_data) <= 11
        THEN ParseError("Frame too short for application header", NoExc)
        ELSE parse_headers(clean_data)

parse_response(data) ==
    LET clean == remove_crc_from_frame(data)
        clean_data == clean.value
    IN  IF clean.raised THEN ParseError("Parse error", clean.exc)
        ELSE IF Len(clean_data) < 8
        THEN ParseError("Frame too short for data link header", NoExc)
        ELSE IF Len(clean_data) < 9
        THEN ParseError("Frame too short for transport header", NoExc)
        ELSE IF Len(clean_data) < 11
        THEN ParseError("Frame too short for application header", NoExc)
        ELSE parse_headers(clean_data)

-----------------------------------------------------------------------------
(* Inputs of the codec operations *)

Pattern(n, seed) == [i \in 1..n |-> (seed * i) % 256]
Seeds == {0, 37, 255}

\* data-link header of the link-status frame printed in IEEE 1815
RefHeader == <<5, 100, 5, 192, 1, 0, 0, 4>>

\* the read request for group 30 variation 1 points 0..9 before framing, and
\* the same request cut inside or after its object header
ReadRequestBytes == <<5, 100, 8, 68, 10, 0, 1, 0, 192, 192, 1, 30, 1, 0, 0, 9>>
CutRequests == {Slice(ReadRequestBytes, 0, n) : n \in 11..16}

Payloads == {Pattern(n, s) : n \in 0..MaxLen, s \in Seeds} \cup {RefHeader} \cup CutRequests

SrcAddrs == {1, 65535}
DstAddrs == {10, 4660}
Ranges == {<<30, 1, 0, 9>>, <<1, 2, 0, 255>>, <<20, 1, 250, 259>>}

RECURSIVE SeqsUpTo(_, _)
SeqsUpTo(S, n) ==
    IF n = 0 THEN {<<>>}
    ELSE LET T == SeqsUpTo(S, n - 1)
         IN  T \cup {Append(t, x) : t \in {u \in T : Len(u) = n - 1}, x \in S}

ObjectLists == SeqsUpTo(Ranges, MaxObjects)

DataLinkHeaders ==
    [start1 : {5, 0}, start2 : {100}, length : {0, 5, 255}, control : {68, 192},
     destination : {0, 10, 4660, 65535}, source : {1, 65535}]
TransportHeaders == [fin : BOOLEAN, fir : BOOLEAN, sequence : {0, 1, 63, 64}]
ApplicationHeaders == [control : {0, 192, 197, 255}, function_code : {0, 1, 129, 130, 255}]
ObjectHeaders ==
    [group : {30}, variation : {1}, qualifier : 0..255,
     range_field : {Pattern(n, 37) : n \in 0..MaxRangeLen}]

None == [type |-> "None"]

-----------------------------------------------------------------------------
(* The codec as its callers drive it: encode, carry, decode *)

CodecInit ==
    /\ pc = "idle"
    /\ payload = <<>>
    /\ request = None
    /\ header = None
    /\ wire = <<>>
    /\ flipped = -1
    /\ cut = 0
    /\ result = None

Reset ==
    /\ pc # "idle"
    /\ pc' = "idle"
    /\ payload' = <<>>
    /\ request' = None
    /\ header' = None
    /\ wire' = <<>>
    /\ flipped' = -1
    /\ cut' = 0
    /\ result' = None
    /\ UNCHANGED <<clientVars, managerVars, threadVars>>

CalculateCrc ==
    /\ pc = "idle"
    /\ \E b \in Payloads :
        /\ payload' = b
        /\ result' = calculate_crc(b)
    /\ pc' = "calculate_crc"
    /\ UNCHANGED <<clientVars, managerVars, threadVars>>
    /\ UNCHANGED <<request, header, wire, flipped, cut>>

AddCrcToFrame ==
    /\ pc = "idle"
    /\ \E b \in Payloads :
        /\ payload' = b
        /\ wire' = add_crc_to_frame(b)
    /\ pc' = "add_crc_to_frame"
    /\ UNCHANGED <<clientVars, managerVars, threadVars>>
    /\ UNCHANGED <<request, header, flipped, cut, result>>

RemoveCrcFromFrame ==
    /\ \/ pc \in {"add_crc_to_frame", "flip_bit"}
       \/ pc = "truncate" /\ header.type = "None"
    /\ result' = remove_crc_from_frame(wire)
    /\ pc' = "remove_crc_from_frame"
    /\ UNCHANGED <<clientVars, managerVars, threadVars>>
    /\ UNCHANGED <<payload, request, header, wire, flipped, cut>>

CreateReadRequest ==
    /\ pc = "idle"
    /\ \E s \in SrcAddrs, d \in DstAddrs, objs \in ObjectLists :
        LET r == create_read_request(s, d, objs)
        IN  /\ request' = [source |-> s, destination |-> d, objects |-> objs,
                           raised |-> r.raised]
            /\ wire' = r.value
    /\ pc' = "create_read_request"
    /\ UNCHANGED <<clientVars, managerVars, threadVars>>
    /\ UNCHANGED <<payload, header, flipped, cut, result>>

\* one bit of the frame changes between sender and receiver
FlipByte(b, k) == BitXor[b, 2 ^ k]
FlipBit ==
    /\ pc \in {"add_crc_to_frame", "create_read_request"}
    /\ \E p \in 0..(8 * Len(wire) - 1) :
        /\ wire' = [wire EXCEPT ![(p \div 8) + 1] = FlipByte(@, p % 8)]
        /\ flipped' = p
    /\ pc' = "flip_bit"
    /\ UNCHANGED <<clientVars, managerVars, threadVars>>
    /\ UNCHANGED <<payload, request, header, cut, result>>

\* the receiver's recv() returns only the first n bytes of what was sent
Truncate ==
    /\ pc \in {"add_crc_to_frame", "create_read_request", "pack"}
    /\ \E n \in 0..(Len(wire) - 1) :
        /\ wire' = Slice(wire, 0, n)
        /\ cut' = Len(wire) - n
    /\ pc' = "truncate"
    /\ UNCHANGED <<clientVars, managerVars, threadVars>>
    /\ UNCHANGED <<payload, request, header, flipped, result>>

ParseResponse ==
    /\ \/ pc \in {"add_crc_to_frame", "create_read_request", "flip_bit"}
       \/ pc = "truncate" /\ header.type = "None"
    /\ result' = parse_response(wire)
    /\ pc' = "parse_response"
    /\ UNCHANGED <<clientVars, managerVars, threadVars>>
    /\ UNCHANGED <<payload, request, header, wire, flipped, cut>>

PackDataLink ==
    /\ pc = "idle"
    /\ \E h \in DataLinkHeaders :
        /\ header' = [type |-> "data_link", h |-> h]
        /\ wire' = DNP3DataLinkHeader_pack(h).value
    /\ pc' = "pack"
    /\ UNCHANGED <<clientVars, managerVars, threadVars>>
    /\ UNCHANGED <<payload, request, flipped, cut, result>>

PackTransport ==
    /\ pc = "idle"
    /\ \E h \in TransportHeaders :
        /\ header' = [type |-> "transport", h |-> h]
        /\ wire' = DNP3TransportHeader_pack(h).value
    /\ pc' = "pack"
    /\ UNCHANGED <<clientVars, managerVars, threadVars>>
    /\ UNCHANGED <<payload, request, flipped, cut, result>>

PackApplication ==
    /\ pc = "idle"
    /\ \E h \in ApplicationHeaders :
        /\ header' = [type |-> "application", h |-> h]
        /\ wire' = DNP3ApplicationHeader_pack(h).value
    /\ pc' = "pack"
    /\ UNCHANGED <<clientVars, managerVars, threadVars>>
    /\ UNCHANGED <<payload, request, flipped, cut, result>>

PackObject ==
    /\ pc = "idle"
    /\ \E h \in ObjectHeaders :
        /\ header' = [type |-> "object", h |-> h]
        /\ wire' = DNP3ObjectHeader_pack(h).value
    /\ pc' = "pack"
    /\ UNCHANGED <<clientVars, managerVars, threadVars>>
    /\ UNCHANGED <<payload, request, flipped, cut, result>>

UnpackDataLink ==
    /\ pc \in {"pack", "truncate"} /\ header.type = "data_link"
    /\ result' = DNP3DataLinkHeader_unpack(wire)
    /\ pc' = "unpack"
    /\ UNCHANGED <<clientVars, managerVars, threadVars>>
    /\ UNCHANGED <<payload, request, header, wire, flipped, cut>>

UnpackTransport ==
    /\ pc \in {"pack", "truncate"} /\ header.type = "transport"
    /\ result' = DNP3TransportHeader_unpack(wire)
    /\ pc' = "unpack"
    /\ UNCHANGED <<clientVars, managerVars, threadVars>>
    /\ UNCHANGED <<payload, request, header, wire, flipped, cut>>

UnpackApplication ==
    /\ pc \in {"pack", "truncate"} /\ header.type = "application"
    /\ result' = DNP3ApplicationHeader_unpack(wire)
    /\ pc' = "unpack"
    /\ UNCHANGED <<clientVars, managerVars, threadVars>>
    /\ UNCHANGED <<payload, request, header, wire, flipped, cut>>

UnpackObject ==
    /\ pc \in {"pack", "truncate"} /\ header.type = "object"
    /\ result' = DNP3ObjectHeader_unpack(wire)
    /\ pc' = "unpack"
    /\ UNCHANGED <<clientVars, managerVars, threadVars>>
    /\ UNCHANGED <<payload, request, header, wire, flipped, cut>>

-----------------------------------------------------------------------------
(* DNP3Client: the raw read path *)

TypeError == [type |-> "TypeError", msg |-> "unexpected keyword argument",
              block |-> -1, expected |-> -1, got |-> -1]

\* parameters of "def create_read_request(source, destination, objects)"
create_read_request_params == {"source", "destination", "objects"}

\* a call DNP3Utils.create_read_request(**kwargs)
call_create_read_request(kwargs) ==
    IF DOMAIN kwargs \subseteq create_read_request_params
    THEN create_read_request(kwargs.source, kwargs.destination, kwargs.objects)
    ELSE Raised(TypeError)

\* d.get(key, default)
DictGet(d, key, default) == IF key \in DOMAIN d THEN d[key] ELSE default

Log(level, msg) == [level |-> level, msg |-> msg]
ReturnNone == [none |-> TRUE, points |-> <<>>]
ReturnPoints(ps) == [none |-> FALSE, points |-> ps]

\* "for i in range(count): points.append(DNP3Point(start_index + i, 0, 0x01))"
placeholder_points(start_index, count) ==
    [i \in 1..count |-> [index |-> start_index + i - 1, value |-> 0, quality |-> 1]]

Outcome(s, sent, ret, log) == [self |-> s, sent |-> sent, ret |-> ret, log |-> log]

\* lines 436-459: what _read_points does with the bytes it received
read_points_response(s, sent, response, start_index, count) ==
    IF Len(response) > 0
    THEN LET parsed == parse_response(response)
         IN  IF "error" \notin DOMAIN parsed /\ DictGet(parsed, "valid", FALSE)
             THEN LET response_seq == DictGet(DictGet(parsed, "application", <<>>),
                                              "sequence", -1)
                      warn == IF response_seq # s._app_sequence
                              THEN <<Log("warning", "Sequence mismatch")>>
                              ELSE <<>>
                  IN  Outcome(s, sent,
                              ReturnPoints(placeholder_points(start_index, count)), warn)
             ELSE IF "error" \in DOMAIN parsed
                  THEN Outcome(s, sent, ReturnNone,
                               <<Log("error", "Response parsing error")>>)
                  \* parsed['error'] raises KeyError, caught at line 461
                  ELSE Outcome(s, sent, ReturnNone,
                               <<Log("error", "Raw read request failed")>>)
    ELSE Outcome(s, sent, ReturnNone, <<Log("error", "No response received")>>)

\* DNP3Client._read_points; peer says how the device side behaves
_read_points(s0, group, variation, start_index, count, peer) ==
    LET s == [s0 EXCEPT !._app_sequence = (s0._app_sequence + 1) % 16,
                        !._sequence_number = (s0._sequence_number + 1) % 64]
        read_request == call_create_read_request(
            [source |-> s._local_address,
             destination |-> s._remote_address,
             objects |-> <<<<group, variation, start_index, start_index + count - 1>>>>,
             app_seq |-> s._app_sequence,
             transport_seq |-> s._sequence_number])
    IN  IF read_request.raised
        THEN Outcome(s, <<>>, ReturnNone, <<Log("error", "Error in raw point reading")>>)
        ELSE IF ~peer.tcp
        THEN Outcome(s, <<>>, ReturnNone, <<Log("error", "Raw read request failed")>>)
        ELSE IF peer.recv = "timeout"
        THEN Outcome(s, <<read_request.value>>, ReturnNone,
                     <<Log("error", "Raw read request failed")>>)
        ELSE read_points_response(s, <<read_request.value>>, peer.response,
                                  start_index, count)

(* What the device may answer *)

RespSeqs == {0, 5, 6, 15}
RespFuncs == {RESPONSE, UNSOLICITED_RESPONSE, READ, 0}

\* a reply frame with application sequence r and function code fc
ResponseFrame(r, fc) ==
    LET app == DNP3ApplicationHeader_pack([control |-> 192 + r, function_code |-> fc]).value
        tr == DNP3TransportHeader_pack([fin |-> TRUE, fir |-> TRUE, sequence |-> 0]).value
        body == tr \o app \o <<0, 0>>
        dl == DNP3DataLinkHeader_pack([start1 |-> 5, start2 |-> 100, length |-> Len(body),
                                       control |-> 68, destination |-> 1, source |-> 10]).value
    IN  add_crc_to_frame(dl \o body)

PeerResponses == {ResponseFrame(r, fc) : r \in RespSeqs, fc \in RespFuncs}
                     \cup {<<>>, <<1, 2, 3>>}
\* the response counts only when the connection stood and recv() returned data
Peers ==
    {p \in [tcp : BOOLEAN, recv : {"data", "timeout"}, response : PeerResponses] :
        (~p.tcp \/ p.recv = "timeout") => p.response = <<>>}

\* the (group, variation) pairs of read_binary_inputs, read_analog_inputs, read_counters
ReadKinds == {<<1, 2>>, <<30, 1>>, <<20, 1>>}
StartIndexes == {0, 250}
Counts == {1, 10}

\* what crossed the socket of _read_points: the request, then how recv() ended
wire_events(sent, peer) ==
    IF sent = <<>> THEN <<>>
    ELSE <<"send", IF peer.recv = "data" THEN "recv" ELSE "timeout">>

NoPeer == [tcp |-> FALSE, recv |-> "timeout", response |-> <<>>]
NoCall == [op |-> "none", args |-> <<>>, peer |-> NoPeer, sent |-> <<>>,
           ret |-> ReturnNone, log |-> <<>>, events |-> <<>>, before |-> None]

\* DNP3Client.__init__ with its default addresses; the module-level import of
\* pydnp3 has succeeded or failed before any client exists
ClientInit ==
    /\ self = [_local_address |-> 1, _remote_address |-> 10, _connected |-> FALSE,
               _sequence_number |-> 0, _app_sequence |-> 0, _master |-> FALSE]
    /\ cpc = "ready"
    /\ call = NoCall
    /\ PYDNP3_AVAILABLE \in BOOLEAN

ReadPoints ==
    /\ cpc = "ready"
    /\ \E gv \in ReadKinds, start_index \in StartIndexes, count \in Counts, peer \in Peers :
        LET o == _read_points(self, gv[1], gv[2], start_index, count, peer)
        IN  /\ self' = o.self
            /\ call' = [op |-> "_read_points",
                        args |-> <<gv[1], gv[2], start_index, count>>,
                        peer |-> peer, sent |-> o.sent, ret |-> o.ret, log |-> o.log,
                        events |-> wire_events(o.sent, peer), before |-> self]
    /\ cpc' = "returned"
    /\ UNCHANGED PYDNP3_AVAILABLE
    /\ UNCHANGED <<codecVars, managerVars, threadVars>>

\* the caller takes the returned value; the client is ready for the next call
Return ==
    /\ cpc = "returned"
    /\ cpc' = "ready"
    /\ call' = NoCall
    /\ UNCHANGED <<self, PYDNP3_AVAILABLE>>
    /\ UNCHANGED <<codecVars, managerVars, threadVars>>

-----------------------------------------------------------------------------
(* DNP3Client: connection and the public operations.  Of the log only the  *)
(* line that tells the outcome is kept.  A step of a method is the record  *)
(* [self, ret, sent, events, log]: the object after it, the returned value,*)
(* the frames written to sockets, what crossed the sockets in order, and   *)
(* the log lines.                                                          *)

MaxScan == 2            \* longest address range handed to discover_devices

Step(s, ret, sent, events, log) ==
    [self |-> s, ret |-> ret, sent |-> sent, events |-> events, log |-> log]

\* how the device and the pydnp3 library behave during one call: tcp says
\* whether connect_ex() and the later connect() succeed, recv how recv()
\* ends, pydnp3 whether the library calls raise (fail_enable: only after
\* self._master is assigned), value what every point of the device holds
Devices ==
    {d \in [tcp : {"refused", "probe_only", "ok"},
            recv : {"data", "timeout", "error"},
            response : {<<>>, <<1, 2, 3>>, ResponseFrame(0, RESPONSE)},
            pydnp3 : {"ok", "fail", "fail_enable"},
            value : {0, 1}] :
        /\ d.tcp = "refused" => d.pydnp3 = "ok"
        /\ d.tcp # "ok" => d.recv = "timeout"
        /\ d.recv # "data" => d.response = <<>>}

_test_tcp_connection(dev) == dev.tcp # "refused"

\* mutant of _test_dnp3_connection: the request is sent and the method
\* returns without waiting for the response
_test_dnp3_connection_no_recv(s, dev) ==
    LET read_request == create_read_request(s._local_address, s._remote_address,
                                            <<<<60, 1, 0, 0>>>>)
    IN  IF read_request.raised
        THEN Step(s, FALSE, <<>>, <<>>,
                  <<Log("error", "Raw DNP3 connection test failed")>>)
        ELSE IF dev.tcp # "ok"
        THEN Step(s, FALSE, <<>>, <<>>, <<Log("error", "DNP3 request failed")>>)
        ELSE Step([s EXCEPT !._connected = TRUE], TRUE,
                  <<read_request.value>>, <<"send">>,
                  <<Log("info", "Raw DNP3 connection successful")>>)

\* mutant of _test_dnp3_connection: a response that does not parse is a
\* failed test
_test_dnp3_connection_strict(s, dev) ==
    LET read_request == create_read_request(s._local_address, s._remote_address,
                                            <<<<60, 1, 0, 0>>>>)
    IN  IF read_request.raised
        THEN Step(s, FALSE, <<>>, <<>>,
                  <<Log("error", "Raw DNP3 connection test failed")>>)
        ELSE IF dev.tcp # "ok"
        THEN Step(s, FALSE, <<>>, <<>>, <<Log("error", "DNP3 request failed")>>)
        ELSE IF dev.recv = "timeout"
        THEN Step(s, FALSE, <<read_request.value>>, <<"send", "timeout">>,
                  <<Log("error", "DNP3 request timeout")>>)
        ELSE IF dev.recv = "error"
        THEN Step(s, FALSE, <<read_request.value>>, <<"send", "error">>,
                  <<Log("error", "DNP3 request failed")>>)
        ELSE IF Len(dev.response) > 0 /\ "error" \notin DOMAIN parse_response(dev.response)
        THEN Step([s EXCEPT !._connected = TRUE], TRUE,
                  <<read_request.value>>, <<"send", "recv">>,
                  <<Log("info", "Raw DNP3 connection successful")>>)
        ELSE Step(s, FALSE, <<read_request.value>>, <<"send", "recv">>,
                  <<Log("warning", "No response received")>>)

\* _test_dnp3_connection once read_request is built: the socket is opened,
\* the request sent and one response awaited
test_exchange(s, dev, read_request) ==
    IF read_request.raised
    THEN Step(s, FALSE, <<>>, <<>>,
              <<Log("error", "Raw DNP3 connection test failed")>>)
    ELSE IF dev.tcp # "ok"
    THEN Step(s, FALSE, <<>>, <<>>, <<Log("error", "DNP3 request failed")>>)
    ELSE IF dev.recv = "timeout"
    THEN Step(s, FALSE, <<read_request.value>>, <<"send", "timeout">>,
              <<Log("error", "DNP3 request timeout")>>)
    ELSE IF dev.recv = "error"
    THEN Step(s, FALSE, <<read_request.value>>, <<"send", "error">>,
              <<Log("error", "DNP3 request failed")>>)
    ELSE IF Len(dev.response) > 0
    THEN Step([s EXCEPT !._connected = TRUE], TRUE,
              <<read_request.value>>, <<"send", "recv">>,
              IF "error" \notin DOMAIN parse_response(dev.response)
              THEN <<Log("info", "Raw DNP3 connection successful")>>
              ELSE <<Log("warning", "Received response but parsing failed")>>)
    ELSE Step(s, FALSE, <<read_request.value>>, <<"send", "recv">>,
              <<Log("warning", "No response received")>>)

_test_dnp3_connection(s, dev) ==
    test_exchange(s, dev, create_read_request(s._local_address, s._remote_address,
                                              <<<<60, 1, 0, 0>>>>))

\* a step r after a step c
Then(c, r) == Step(r.self, r.ret, c.sent \o r.sent, c.events \o r.events, c.log \o r.log)

\* the library does its own input and output; none of it is recorded here
_connect_pydnp3(s, dev) ==
    IF dev.pydnp3 = "ok"
    THEN Step([s EXCEPT !._master = TRUE, !._connected = TRUE], TRUE, <<>>, <<>>,
              <<Log("info", "Successfully connected to DNP3 device using pydnp3")>>)
    ELSE Then(Step(s, FALSE, <<>>, <<>>, <<Log("error", "pydnp3 connection failed")>>),
              _test_dnp3_connection(IF dev.pydnp3 = "fail_enable"
                                    THEN [s EXCEPT !._master = TRUE] ELSE s,
                                    dev))

connect(s, available, dev) ==
    IF ~_test_tcp_connection(dev)
    THEN Step(s, FALSE, <<>>, <<>>, <<Log("error", "TCP connection failed")>>)
    ELSE IF available THEN _connect_pydnp3(s, dev)
    ELSE _test_dnp3_connection(s, dev)

\* mutant of disconnect: the library objects are dropped, the flag stays
disconnect_keeps_flag(s) == [s EXCEPT !._master = FALSE]

\* mutant of disconnect: the protocol state is reset with the connection
disconnect_resets_sequence(s) ==
    [s EXCEPT !._master = FALSE, !._connected = FALSE,
              !._sequence_number = 0, !._app_sequence = 0]

disconnect(s) == [s EXCEPT !._master = FALSE, !._connected = FALSE]

\* "if not self._connected: if not self.connect(): return ..."
connect_if_needed(s, available, dev) ==
    IF ~s._connected THEN connect(s, available, dev)
    ELSE Step(s, TRUE, <<>>, <<>>, <<>>)

_read_points_pydnp3(s, point_type, start_index, count, dev) ==
    IF ~s._master
    THEN Step(s, ReturnNone, <<>>, <<>>, <<Log("error", "Master not initialized")>>)
    ELSE IF dev.pydnp3 # "ok"
    THEN Step(s, ReturnNone, <<>>, <<>>,
              <<Log("error", "Error reading points with pydnp3")>>)
    ELSE Step(s,
              ReturnPoints([i \in 1..count |->
                  [index |-> start_index + i - 1,
                   value |-> IF point_type = "binary_input" THEN FALSE ELSE 0,
                   quality |-> 1]]),
              <<>>, <<>>, <<Log("info", "Successfully requested points")>>)

\* the device as _read_points meets it
ReadPeer(dev) ==
    [tcp |-> dev.tcp = "ok",
     recv |-> IF dev.recv = "data" THEN "data" ELSE "timeout",
     response |-> dev.response]

\* the common body of read_binary_inputs, read_analog_inputs, read_counters
\* the outcome o of _read_points as a step
raw_read(o, peer) == Step(o.self, o.ret, o.sent, wire_events(o.sent, peer), o.log)

\* a public read after its connection step c
read_connected(c, available, group, variation, point_type, start_index, count, dev) ==
    IF ~c.ret THEN Step(c.self, ReturnNone, c.sent, c.events, c.log)
    ELSE IF available /\ c.self._master
    THEN Then(c, _read_points_pydnp3(c.self, point_type, start_index, count, dev))
    ELSE Then(c, raw_read(_read_points(c.self, group, variation, start_index, count,
                                       ReadPeer(dev)),
                          ReadPeer(dev)))

read_inputs(s, available, group, variation, point_type, start_index, count, dev) ==
    read_connected(connect_if_needed(s, available, dev), available, group, variation,
                   point_type, start_index, count, dev)

read_binary_inputs(s, available, start_index, count, dev) ==
    read_inputs(s, available, 1, 2, "binary_input", start_index, count, dev)
read_analog_inputs(s, available, start_index, count, dev) ==
    read_inputs(s, available, 30, 1, "analog_input", start_index, count, dev)
read_counters(s, available, start_index, count, dev) ==
    read_inputs(s, available, 20, 1, "counter", start_index, count, dev)

\* the common body of write_binary_output, cold_restart, warm_restart and
\* enable_unsolicited: the library sends the command, the raw path has none
service_connected(c, available, name, dev) ==
    IF ~c.ret THEN Step(c.self, FALSE, c.sent, c.events, c.log)
    ELSE IF available /\ c.self._master
    THEN IF dev.pydnp3 = "ok"
         THEN Then(c, Step(c.self, TRUE, <<>>, <<>>, <<Log("info", "command sent")>>))
         ELSE Then(c, Step(c.self, FALSE, <<>>, <<>>, <<Log("error", name)>>))
    ELSE Then(c, Step(c.self, FALSE, <<>>, <<>>,
                      <<Log("warning", "not implemented for raw sockets")>>))

service(s, available, name, dev) ==
    service_connected(connect_if_needed(s, available, dev), available, name, dev)

write_binary_output(s, available, index, value, dev) ==
    service(s, available, "Error writing binary output", dev)
cold_restart(s, available, dev) ==
    service(s, available, "Error performing cold restart", dev)
warm_restart(s, available, dev) ==
    service(s, available, "Error performing warm restart", dev)
enable_unsolicited(s, available, dev) ==
    service(s, available, "Error enabling unsolicited", dev)

\* the loop "for addr in address_range" from its k-th address on; devs[k] is
\* what answers at address_range[k]; acc.ret is the list "devices"
\* one address of the scan after its connect() step c: the device is
\* appended and disconnected when connect() returned True, and the saved
\* address is put back
probed(acc, addr, original_addr, c) ==
    Then(acc, Step([(IF c.ret THEN disconnect(c.self) ELSE c.self)
                        EXCEPT !._remote_address = original_addr],
                   IF c.ret THEN Append(acc.ret, addr) ELSE acc.ret,
                   c.sent, c.events, c.log))

RECURSIVE discover_loop(_, _, _, _, _)
discover_loop(available, address_range, devs, k, acc) ==
    IF k > Len(address_range) THEN acc
    ELSE discover_loop(available, address_range, devs, k + 1,
                       probed(acc, address_range[k], acc.self._remote_address,
                              connect([acc.self EXCEPT
                                          !._remote_address = address_range[k]],
                                      available, devs[k])))

discover_devices(s, available, address_range, devs) ==
    discover_loop(available, address_range, devs, 1, Step(s, <<>>, <<>>, <<>>, <<>>))

(* Inputs of the public operations *)

AddressRanges == {[i \in 1..n |-> a + i - 1] : a \in {1, 65535}, n \in 0..MaxScan}
\* (start_index, count) of a public read: the defaults, and one point high up
ReadArgs == {<<0, 10>>, <<250, 1>>}
\* the devices as the operations that read no point meet them
PlainDevices == {d \in Devices : d.value = 0}
ScanDevices ==
    {d \in Devices :
        /\ d.value = 0
        /\ d.tcp # "probe_only"
        /\ d.recv # "error"
        /\ d.pydnp3 # "fail_enable"
        /\ d.pydnp3 = "ok" => (d.tcp = "refused" \/ Len(d.response) > 3)}
ScanAnswers(n) == [1..n -> ScanDevices]

Invoke(op, args, dev, r) ==
    /\ cpc = "ready"
    /\ self' = r.self
    /\ call' = [op |-> op, args |-> args, peer |-> dev, sent |-> r.sent,
                ret |-> r.ret, log |-> r.log, events |-> r.events, before |-> self]
    /\ cpc' = "returned"
    /\ UNCHANGED PYDNP3_AVAILABLE
    /\ UNCHANGED <<codecVars, managerVars, threadVars>>

Connect ==
    /\ cpc = "ready"
    /\ \E dev \in PlainDevices :
        Invoke("connect", <<>>, dev, connect(self, PYDNP3_AVAILABLE, dev))

Disconnect ==
    Invoke("disconnect", <<>>, NoPeer, Step(disconnect(self), None, <<>>, <<>>,
                                            <<Log("info", "Disconnected from DNP3 device")>>))

ReadBinaryInputs ==
    /\ cpc = "ready"
    /\ \E a \in ReadArgs, dev \in Devices :
        LET start_index == a[1]
            count == a[2]
        IN
        Invoke("read_binary_inputs", <<start_index, count>>, dev,
               read_binary_inputs(self, PYDNP3_AVAILABLE, start_index, count, dev))

ReadAnalogInputs ==
    /\ cpc = "ready"
    /\ \E a \in ReadArgs, dev \in Devices :
        LET start_index == a[1]
            count == a[2]
        IN
        Invoke("read_analog_inputs", <<start_index, count>>, dev,
               read_analog_inputs(self, PYDNP3_AVAILABLE, start_index, count, dev))

ReadCounters ==
    /\ cpc = "ready"
    /\ \E a \in ReadArgs, dev \in Devices :
        LET start_index == a[1]
            count == a[2]
        IN
        Invoke("read_counters", <<start_index, count>>, dev,
               read_counters(self, PYDNP3_AVAILABLE, start_index, count, dev))

WriteBinaryOutput ==
    /\ cpc = "ready"
    /\ \E index \in {0}, value \in BOOLEAN, dev \in PlainDevices :
        Invoke("write_binary_output", <<index, value>>, dev,
               write_binary_output(self, PYDNP3_AVAILABLE, index, value, dev))

ColdRestart ==
    /\ cpc = "ready"
    /\ \E dev \in PlainDevices :
        Invoke("cold_restart", <<>>, dev, cold_restart(self, PYDNP3_AVAILABLE, dev))

WarmRestart ==
    /\ cpc = "ready"
    /\ \E dev \in PlainDevices :
        Invoke("warm_restart", <<>>, dev, warm_restart(self, PYDNP3_AVAILABLE, dev))

EnableUnsolicited ==
    /\ cpc = "ready"
    /\ \E dev \in PlainDevices :
        Invoke("enable_unsolicited", <<>>, dev,
               enable_unsolicited(self, PYDNP3_AVAILABLE, dev))

DiscoverDevices ==
    /\ cpc = "ready"
    /\ \E address_range \in AddressRanges :
        \E devs \in ScanAnswers(Len(address_range)) :
            Invoke("discover_devices", <<address_range>>, devs,
                   discover_devices(self, PYDNP3_AVAILABLE, address_range, devs))

-----------------------------------------------------------------------------
(* ClientManager (src/src/client_manager.py).  The dict clients is the      *)
(* sequence of its items in insertion order.  A client instance is the     *)
(* record of its type, the name it was constructed with and a serial       *)
(* number that tells two instances apart; the manager is the record m of    *)
(* its fields clients and current_client.                                  *)

\* Python's None where an instance or a name is expected
NoClient == [client_type |-> "NoneType", name |-> "None", serial |-> 0]
NoName == "None"

available_clients ==
    {"bacnet", "modbus", "modbus_tcp", "s7", "s7plus", "opcua", "cip", "wdb2",
     "zmq", "cclink"}

\* name in d
dict_contains(d, name) == \E i \in 1..Len(d) : d[i].name = name

\* d[name]
dict_get(d, name) == d[CHOOSE i \in 1..Len(d) : d[i].name = name].value

\* d[name] = value: an existing key keeps its place, a new one goes last
dict_set(d, name, value) ==
    IF dict_contains(d, name)
    THEN [i \in 1..Len(d) |->
            IF d[i].name = name THEN [name |-> name, value |-> value] ELSE d[i]]
    ELSE Append(d, [name |-> name, value |-> value])

\* d after d.pop(name)
dict_pop(d, name) == SelectSeq(d, LAMBDA item : item.name # name)

\* set(d.values())
dict_values(d) == {d[i].value : i \in 1..Len(d)}

\* f"{client_type}_client"
default_name(client_type) == client_type \o "_client"

\* client_class(name=name, **kwargs): a new instance
client_class(client_type, name, serial) ==
    [client_type |-> client_type, name |-> name, serial |-> serial]

\* use_client: loads tells whether the imports and the constructor succeed;
\* when they do not, the except clause reports it before anything was stored
use_client(m, client_type, name, serial, loads) ==
    IF client_type \notin available_clients THEN [m |-> m, loaded |-> FALSE]
    ELSE IF ~loads THEN [m |-> m, loaded |-> FALSE]
    ELSE LET n == IF name = NoName THEN default_name(client_type) ELSE name
             client == client_class(client_type, n, serial)
         IN  [m |-> [clients |-> dict_set(m.clients, n, client),
                     current_client |-> client],
              loaded |-> TRUE]

back(m) == [m EXCEPT !.current_client = NoClient]

\* create_client returns the client, or None
create_client(m, client_type, name, serial, loads) ==
    IF client_type \notin available_clients THEN [m |-> m, ret |-> NoClient]
    ELSE IF ~loads THEN [m |-> m, ret |-> NoClient]
    ELSE LET client == client_class(client_type, name, serial)
         IN  [m |-> [clients |-> dict_set(m.clients, name, client),
                     current_client |-> client],
              ret |-> client]

set_current_client(m, name) ==
    IF dict_contains(m.clients, name)
    THEN [m |-> [m EXCEPT !.current_client = dict_get(m.clients, name)], ret |-> TRUE]
    ELSE [m |-> m, ret |-> FALSE]

\* mutant of remove_client: the entry is popped, current_client is not updated
remove_client_keeps_current(m, name) ==
    IF dict_contains(m.clients, name)
    THEN [m |-> [m EXCEPT !.clients = dict_pop(m.clients, name)], ret |-> TRUE]
    ELSE [m |-> m, ret |-> FALSE]

\* remove_client: disconnect_client changes neither field; a removed current
\* client is replaced by the first remaining one, or by None
remove_client(m, name) ==
    IF dict_contains(m.clients, name)
    THEN LET client == dict_get(m.clients, name)
             rest == dict_pop(m.clients, name)
         IN  [m |-> [clients |-> rest,
                     current_client |->
                        IF m.current_client = client
                        THEN IF rest # <<>> THEN rest[1].value ELSE NoClient
                        ELSE m.current_client],
              ret |-> TRUE]
    ELSE [m |-> m, ret |-> FALSE]

\* cleanup_all_clients returns at once when there are no clients
cleanup_all_clients(m) ==
    IF m.clients = <<>> THEN m
    ELSE [clients |-> <<>>, current_client |-> NoClient]

\* inputs: "dnp3" is not a key of available_clients
ClientTypes == {"modbus", "s7", "dnp3"}
ClientNames == {"plc", "modbus_client"}

NoManagerCall == [op |-> "none", client_type |-> "", name |-> "", ok |-> TRUE,
                  before |-> [clients |-> <<>>, current_client |-> NoClient],
                  removed |-> NoClient]

\* ClientManager.__init__
ManagerInit ==
    /\ clients = <<>>
    /\ current_client = NoClient
    /\ instances = 0
    /\ mcall = NoManagerCall

manager == [clients |-> clients, current_client |-> current_client]

\* the fields after a method, and the record of the call
ManagerCall(op, client_type, name, m, ok, removed) ==
    /\ clients' = m.clients
    /\ current_client' = m.current_client
    /\ mcall' = [op |-> op, client_type |-> client_type, name |-> name, ok |-> ok,
                 before |-> manager, removed |-> removed]
    /\ UNCHANGED <<codecVars, clientVars, threadVars>>

UseClient ==
    /\ instances < MaxInstances
    /\ \E client_type \in ClientTypes, name \in ClientNames \cup {NoName},
          loads \in BOOLEAN :
        LET o == use_client(manager, client_type, name, instances + 1, loads)
        IN  /\ ManagerCall("use_client", client_type, name, o.m, o.loaded, NoClient)
            /\ instances' = IF o.loaded THEN instances + 1 ELSE instances

CreateClient ==
    /\ instances < MaxInstances
    /\ \E client_type \in ClientTypes, name \in ClientNames, loads \in BOOLEAN :
        LET o == create_client(manager, client_type, name, instances + 1, loads)
        IN  /\ ManagerCall("create_client", client_type, name, o.m,
                           o.ret # NoClient, NoClient)
            /\ instances' = IF o.ret # NoClient THEN instances + 1 ELSE instances

SetCurrentClient ==
    /\ \E name \in ClientNames \cup {default_name("s7")} :
        LET o == set_current_client(manager, name)
        IN  ManagerCall("set_current_client", "", name, o.m, o.ret, NoClient)
    /\ UNCHANGED instances

Back ==
    /\ ManagerCall("back", "", "", back(manager), TRUE, NoClient)
    /\ UNCHANGED instances

RemoveClient ==
    /\ \E name \in ClientNames \cup {default_name("s7")} :
        LET o == remove_client(manager, name)
        IN  ManagerCall("remove_client", "", name, o.m, o.ret,
                        IF o.ret THEN dict_get(clients, name) ELSE NoClient)
    /\ UNCHANGED instances

CleanupAllClients ==
    /\ ManagerCall("cleanup_all_clients", "", "", cleanup_all_clients(manager), TRUE,
                   NoClient)
    /\ UNCHANGED instances

-----------------------------------------------------------------------------
(* Concurrent callers of the codec.  DNP3Utils.add_crc_to_frame and         *)
(* DNP3Utils.remove_crc_from_frame are static methods whose loops work on   *)
(* the locals i and result of the call.  Each thread runs one call at a     *)
(* time; a step of a thread is one iteration of the loop of its call, and   *)
(* the steps of the threads interleave freely.  A frame is the activation   *)
(* record of a call: its locals, and how the loop was left.                 *)

Threads == {"t1", "t2"}

\* the locals on entry: result = bytearray(), i = 0
NewFrame == [i |-> 0, result |-> <<>>, left |-> FALSE, out |-> Returned(<<>>)]

\* mutant of local: result and i are one buffer shared by all the calls
local_shared(t) == "t1"

\* the activation record of the call of thread t: every call has its own
local(t) == t

\* one iteration of "for i in range(0, len(data), 16)"
add_crc_iteration(data, f) ==
    LET block == Slice(data, f.i, f.i + 16)
    IN  [f EXCEPT !.i = f.i + 16,
                  !.result = f.result \o block \o PackH(calculate_crc(block))]

\* one iteration of "while i < len(data)": it goes on to the next block,
\* raises, or leaves the loop at the break
remove_crc_iteration(data, f) ==
    IF f.i + 18 <= Len(data)
    THEN LET block == Slice(data, f.i, f.i + 16)
             expected_crc == UnpackH(Slice(data, f.i + 16, f.i + 18))
             calculated_crc == calculate_crc(block)
         IN  IF calculated_crc # expected_crc
             THEN [f EXCEPT !.left = TRUE,
                            !.out = Raised(ValueError("CRC mismatch at block",
                                                      f.i \div 18, expected_crc,
                                                      calculated_crc))]
             ELSE [f EXCEPT !.i = f.i + 18, !.result = f.result \o block]
    ELSE LET remaining == Len(data) - f.i
         IN  IF remaining >= 2
             THEN LET block == Slice(data, f.i, f.i + remaining - 2)
                      expected_crc == UnpackH(Slice(data, f.i + remaining - 2,
                                                    f.i + remaining))
                      calculated_crc == calculate_crc(block)
                  IN  IF calculated_crc # expected_crc
                      THEN [f EXCEPT !.left = TRUE,
                                     !.out = Raised(ValueError(
                                                "CRC mismatch in final block", -1,
                                                expected_crc, calculated_crc))]
                      ELSE [f EXCEPT !.left = TRUE,
                                     !.result = f.result \o block,
                                     !.out = Returned(f.result \o block)]
             ELSE [f EXCEPT !.left = TRUE, !.out = Returned(f.result)]

\* the loop of add_crc_to_frame ends when the range is exhausted, that of
\* remove_crc_from_frame when i reaches len(data), at the break, or at a raise
loop_ended(op, data, f) ==
    IF op = "add_crc_to_frame" THEN ~(f.i < Len(data))
    ELSE f.left \/ ~(f.i < Len(data))

\* "return bytes(result)", or the exception that left the loop
call_outcome(f) == IF f.left THEN f.out ELSE Returned(f.result)

\* inputs: payloads of no, one and two blocks; their frames, a frame whose
\* last CRC byte is wrong and a frame cut one byte into its second block
ThreadPayloads == {Pattern(n, 37) : n \in {0, 1, MaxLen - 1, MaxLen}}
ThreadFrames ==
    {add_crc_to_frame(p) : p \in ThreadPayloads}
        \cup {LET w == add_crc_to_frame(Pattern(MaxLen, 37))
              IN  [w EXCEPT ![Len(w)] = (w[Len(w)] + 1) % 256]}
        \cup {Slice(add_crc_to_frame(Pattern(MaxLen, 37)), 0, 19)}
ThreadCalls ==
    {[op |-> "add_crc_to_frame", data |-> p] : p \in ThreadPayloads}
        \cup {[op |-> "remove_crc_from_frame", data |-> w] : w \in ThreadFrames}

Idle == [pc |-> "idle", op |-> "none", data |-> <<>>, ret |-> Returned(<<>>),
         preempted |-> FALSE]

\* no thread has called the codec yet
ThreadsInit ==
    /\ tcall = [t \in Threads |-> Idle]
    /\ frames = [t \in Threads |-> NewFrame]

\* a thread enters a codec method: the call gets its locals
ThreadCall ==
    /\ \E t \in Threads, c \in ThreadCalls :
        /\ tcall[t].pc \in {"idle", "done"}
        /\ tcall' = [tcall EXCEPT ![t] = [pc |-> "loop", op |-> c.op, data |-> c.data,
                                          ret |-> Returned(<<>>),
                                          preempted |-> FALSE]]
        /\ frames' = [frames EXCEPT ![local(t)] = NewFrame]
    /\ UNCHANGED <<codecVars, clientVars, managerVars>>

\* a thread runs one iteration of its loop; the calls of the other threads
\* that are under way have been interleaved with it
ThreadLoop ==
    /\ \E t \in Threads :
        LET f == frames[local(t)]
            c == tcall[t]
        IN  /\ c.pc = "loop"
            /\ ~loop_ended(c.op, c.data, f)
            /\ frames' = [frames EXCEPT ![local(t)] =
                            IF c.op = "add_crc_to_frame"
                            THEN add_crc_iteration(c.data, f)
                            ELSE remove_crc_iteration(c.data, f)]
            /\ tcall' = [u \in Threads |->
                            IF u # t /\ tcall[u].pc = "loop"
                            THEN [tcall[u] EXCEPT !.preempted = TRUE]
                            ELSE tcall[u]]
    /\ UNCHANGED <<codecVars, clientVars, managerVars>>

\* the call of a thread returns or raises
ThreadReturn ==
    /\ \E t \in Threads :
        LET f == frames[local(t)]
            c == tcall[t]
        IN  /\ c.pc = "loop"
            /\ loop_ended(c.op, c.data, f)
            /\ tcall' = [tcall EXCEPT ![t].pc = "done", ![t].ret = call_outcome(f)]
    /\ UNCHANGED frames
    /\ UNCHANGED <<codecVars, clientVars, managerVars>>

Init == CodecInit /\ ClientInit /\ ManagerInit /\ ThreadsInit

Next ==
    \/ CalculateCrc
    \/ AddCrcToFrame
    \/ RemoveCrcFromFrame
    \/ CreateReadRequest
    \/ FlipBit
    \/ Truncate
    \/ ParseResponse
    \/ PackDataLink
    \/ PackTransport
    \/ PackApplication
    \/ PackObject
    \/ UnpackDataLink
    \/ UnpackTransport
    \/ UnpackApplication
    \/ UnpackObject
    \/ Reset

Spec == Init /\ [][Next]_vars

ClientNext ==
    \/ ReadPoints
    \/ Connect
    \/ Disconnect
    \/ ReadBinaryInputs
    \/ ReadAnalogInputs
    \/ ReadCounters
    \/ WriteBinaryOutput
    \/ ColdRestart
    \/ WarmRestart
    \/ EnableUnsolicited
    \/ DiscoverDevices
    \/ Return

ClientSpec == Init /\ [][ClientNext]_vars

ManagerNext ==
    \/ UseClient
    \/ CreateClient
    \/ SetCurrentClient
    \/ Back
    \/ RemoveClient
    \/ CleanupAllClients

ManagerSpec == Init /\ [][ManagerNext]_vars

ThreadsNext ==
    \/ ThreadCall
    \/ ThreadLoop
    \/ ThreadReturn

ThreadsSpec == Init /\ [][ThreadsNext]_vars

-----------------------------------------------------------------------------
(* Properties *)

\* the bytes on the wire are the bytes the encoder produced
Intact == flipped = -1 /\ cut = 0
\* the frame on the wire came from create_read_request and was not altered
Built == "objects" \in DOMAIN request
BuiltIntact == Built /\ ~request.raised /\ Intact
IsError(parsed) == "error" \in DOMAIN parsed

\* C1: CRC round-trip.  Stripping the checksums from add_crc_to_frame(b)
\* succeeds and gives back exactly b, for every payload b.
C1_CrcRoundTrip ==
    (pc = "remove_crc_from_frame" /\ Intact)
        => (~result.raised /\ result.value = payload)

\* a payload with one full 16-byte block and a shorter final block came back
C1_Witness ==
    /\ pc = "remove_crc_from_frame" /\ Intact
    /\ Len(payload) > 16 /\ Len(payload) % 16 # 0
    /\ Len(wire) = Len(payload) + 4
    /\ result.value = payload

\* C2: corruption detection.  A frame with any single bit flipped, in the
\* data or in the CRC bytes, is rejected by parse_response with a CRC
\* mismatch error; it is never parsed successfully.
C2_CorruptionDetected ==
    (pc = "parse_response" /\ flipped # -1)
        => /\ IsError(result)
           /\ result.error.msg = "Parse error"
           /\ result.error.exc.type = "ValueError"
           /\ result.error.exc.msg \in {"CRC mismatch at block",
                                        "CRC mismatch in final block"}

\* a read request whose flipped bit lies in the CRC bytes of its final,
\* shorter block was rejected
C2_Witness ==
    /\ pc = "parse_response" /\ Built
    /\ flipped >= 8 * (Len(wire) - 2)
    /\ Len(wire) > 18
    /\ IsError(result)
    /\ result.error.exc.msg = "CRC mismatch in final block"

\* C3: build-then-parse identity.  Parsing create_read_request(source,
\* destination, [(group, variation, start, stop)]) yields function code READ,
\* the same addresses, and exactly one object header carrying the group, the
\* variation and the range [start, stop].
C3_BuildParseIdentity ==
    (pc = "parse_response" /\ BuiltIntact /\ Len(request.objects) = 1)
        => /\ ~IsError(result)
           /\ result.application.function_code = READ
           /\ result.data_link.source = request.source
           /\ result.data_link.destination = request.destination
           /\ Len(result.objects) = 1
           /\ result.objects[1].group = request.objects[1][1]
           /\ result.objects[1].variation = request.objects[1][2]
           /\ "range_field" \in DOMAIN result.objects[1]
           /\ result.objects[1].range_field
                  = <<request.objects[1][3], request.objects[1][4]>>

\* C4: CRC known vector.  calculate_crc of the reference data-link header
\* 05 64 05 C0 01 00 00 04 is 0x21E9 (E9 21 on the wire).
C4_KnownVector ==
    (pc = "calculate_crc" /\ payload = RefHeader) => result = 8681

\* documented range-field length per qualifier masked with 0x70
RangeLengthTable ==
    (0 :> 2) @@ (16 :> 4) @@ (32 :> 8) @@ (48 :> 1) @@ (64 :> 2) @@ (80 :> 4) @@ (96 :> 0)
Masked(q) == ((q \div 16) % 8) * 16

WellFormed(hd) ==
    CASE hd.type = "data_link" ->
            /\ IsByte(hd.h.start1) /\ IsByte(hd.h.start2) /\ IsByte(hd.h.length)
            /\ IsByte(hd.h.control) /\ IsWord(hd.h.destination) /\ IsWord(hd.h.source)
      [] hd.type = "transport" -> hd.h.sequence \in 0..63
      [] hd.type = "application" -> IsByte(hd.h.control) /\ IsByte(hd.h.function_code)
      [] hd.type = "object" ->
            /\ IsByte(hd.h.group) /\ IsByte(hd.h.variation) /\ IsByte(hd.h.qualifier)
            /\ Masked(hd.h.qualifier) \in DOMAIN RangeLengthTable
            /\ Len(hd.h.range_field) = RangeLengthTable[Masked(hd.h.qualifier)]

Unpacked == IF header.type = "object" THEN result.value[1] ELSE result.value

\* C5: header round-trip.  For each of the four header types, unpacking the
\* packed form of a well-formed header gives a header equal to the original.
C5_HeaderRoundTrip ==
    (pc = "unpack" /\ cut = 0 /\ WellFormed(header))
        => (~result.raised /\ Unpacked = header.h)

\* an object header with a 32-bit start/stop range (8 bytes) and a data-link
\* header with two-byte addresses are among the headers that came back
C5_Witness ==
    /\ pc = "unpack" /\ cut = 0 /\ WellFormed(header) /\ ~result.raised
    /\ \/ header.type = "object" /\ Len(header.h.range_field) = 8
          /\ result.value[1].range_field = header.h.range_field
       \/ header.type = "data_link" /\ header.h.destination = 4660
          /\ result.value.destination = 4660

\* C6: qualifier table.  The range-field length depends only on q & 0x70,
\* equals the documented value in each documented bucket, and unpack of a
\* long enough buffer consumes exactly 3 + that many bytes.
C6_QualifierTable ==
    (pc = "unpack" /\ header.type = "object")
        => LET q == header.h.qualifier
               n == _get_range_field_length(q)
           IN  /\ n = _get_range_field_length(Masked(q))
               /\ Masked(q) \in DOMAIN RangeLengthTable => n = RangeLengthTable[Masked(q)]
               /\ Len(wire) >= 3 + n => (~result.raised /\ result.value[2] = 3 + n)
               /\ Len(wire) < 3 + n => result.raised

\* a qualifier with low bits set in the 32-bit start/stop bucket consumed 11 bytes
C6_Witness ==
    /\ pc = "unpack" /\ header.type = "object"
    /\ header.h.qualifier = 39
    /\ ~result.raised /\ result.value[2] = 11

\* the device's reply, as far as its bytes say
PeerReplied == cpc = "returned" /\ call.op = "_read_points"
                   /\ call.peer.tcp /\ call.peer.recv = "data"
                   /\ Len(call.peer.response) >= 13
ReplySeq == BitAnd[call.peer.response[10], 15]
ReplyFunc == call.peer.response[11]
Logged(msg) == \E i \in 1..Len(call.log) : call.log[i].msg = msg

\* C7: sequence mismatch.  When the reply's application sequence differs from
\* the sequence of the request, the read reports a sequence mismatch to its
\* caller and delivers no points.
C7_SequenceMismatch ==
    (PeerReplied /\ ReplySeq # self._app_sequence)
        => (call.ret.none /\ Logged("Sequence mismatch"))

\* C8: function-code check.  A reply whose function code is neither RESPONSE
\* nor UNSOLICITED_RESPONSE fails with an unexpected-function-code error and
\* produces no points.
C8_FunctionCodeChecked ==
    (PeerReplied /\ ReplyFunc \notin {RESPONSE, UNSOLICITED_RESPONSE})
        => (call.ret.none /\ Logged("Unexpected function code"))

\* C9: object-header list completeness.  Parsing a request built from k
\* ranges returns exactly k object entries, in wire order.
C9_AllObjectsListed ==
    (pc = "parse_response" /\ BuiltIntact)
        => /\ ~IsError(result)
           /\ Len(result.objects) = Len(request.objects)
           /\ \A i \in 1..Len(request.objects) :
                  /\ result.objects[i].group = request.objects[i][1]
                  /\ result.objects[i].variation = request.objects[i][2]

\* C10: empty-object response.  A frame with valid CRCs whose payload is
\* exactly the 11 header bytes parses to an empty object list, not an error.
C10_EmptyObjectList ==
    (/\ pc = "parse_response" /\ Intact
     /\ \/ BuiltIntact /\ request.objects = <<>>
        \/ ~Built /\ Len(payload) = 11)
        => (~IsError(result) /\ result.objects = <<>>)

\* a read request without ranges (13 bytes on the wire) parsed to no objects
C10_Witness ==
    /\ pc = "parse_response" /\ BuiltIntact
    /\ request.objects = <<>> /\ Len(wire) = 13
    /\ ~IsError(result) /\ result.objects = <<>>

\* the three "Frame too short" results of parse_response
FrameTooShort ==
    {"Frame too short for data link header",
     "Frame too short for transport header",
     "Frame too short for application header"}
Stripped == remove_crc_from_frame(wire)

\* C11: frame too short.  Every input whose CRC-stripped content is shorter
\* than 11 bytes, the empty input included, is answered by parse_response
\* with a frame-too-short error and no header fields.
C11_FrameTooShort ==
    (pc = "parse_response" /\ ~Stripped.raised /\ Len(Stripped.value) < 11)
        => /\ DOMAIN result = {"error"}
           /\ result.error.msg \in FrameTooShort

\* a frame of 10 payload bytes, one short of the application header, was
\* answered with a frame-too-short error
C11_Witness ==
    /\ pc = "parse_response" /\ Intact /\ Len(payload) = 10
    /\ ~Stripped.raised /\ Len(Stripped.value) = 10
    /\ result.error.msg = "Frame too short for application header"

\* bytes an unpack needs: 8, 1 and 2 for the fixed headers, 3 plus the
\* documented range length for an object header
RequiredBytes ==
    CASE header.type = "data_link" -> 8
      [] header.type = "transport" -> 1
      [] header.type = "application" -> 2
      [] header.type = "object" ->
            IF Len(wire) >= 3 /\ Masked(wire[3]) \in DOMAIN RangeLengthTable
            THEN 3 + RangeLengthTable[Masked(wire[3])]
            ELSE 3

\* C12: truncated header on unpack.  For each of the four header types,
\* unpack of a buffer shorter than the header needs fails with an error
\* (struct.error for the fixed headers, "Insufficient data" for the object
\* header) and returns no header.
C12_TruncatedHeader ==
    (pc = "unpack" /\ Len(wire) < RequiredBytes)
        => /\ result.raised
           /\ result.value = <<>>
           /\ IF header.type = "object"
              THEN /\ result.exc.type = "ValueError"
                   /\ result.exc.msg \in {"Insufficient data for object header",
                                           "Insufficient data for range field"}
              ELSE result.exc.type = "struct.error"

\* an object header with a 32-bit start/stop qualifier arrived with its
\* three fixed bytes and 7 of its 8 range bytes, and unpack failed
C12_Witness ==
    /\ pc = "unpack" /\ header.type = "object"
    /\ header.h.qualifier = 32 /\ Len(header.h.range_field) = 8
    /\ cut = 1 /\ Len(wire) = 10
    /\ result.raised /\ result.exc.msg = "Insufficient data for range field"

\* C13: truncation surfaced by the parser.  A frame with valid CRCs whose
\* payload ends in an incomplete object header after the 11 header bytes is
\* answered with a truncated-header error, never with a successful result
\* that leaves the trailing bytes out.
C13_TruncationSurfaced ==
    (/\ pc = "parse_response" /\ Intact /\ ~Built
     /\ payload \in CutRequests /\ Len(payload) \in 12..15)
        => /\ IsError(result)
           /\ result.error.exc.msg \in {"Insufficient data for object header",
                                         "Insufficient data for range field"}

\* C14: start-byte validation.  parse_response accepts a frame only if its
\* first two bytes are 0x05 0x64: every input with valid CRCs and at least
\* 11 payload bytes whose first two bytes differ from them gives an error.
C14_StartBytesValidated ==
    (/\ pc = "parse_response" /\ Intact /\ ~Built
     /\ Len(payload) >= 11
     /\ ~(payload[1] = 5 /\ payload[2] = 100))
        => IsError(result)

\* C15: checksum mismatch reporting.  When the CRC of some block, a full
\* 16-byte block or the final shorter one, differs from the recomputed CRC,
\* remove_crc_from_frame fails with an error that carries the index of that
\* block and the two CRC values, and returns no bytes.
C15_MismatchReported ==
    (pc = "remove_crc_from_frame" /\ flipped # -1)
        => /\ result.raised
           /\ result.value = <<>>
           /\ result.exc.block = (flipped \div 8) \div 18
           /\ IsWord(result.exc.expected) /\ IsWord(result.exc.got)
           /\ result.exc.expected # result.exc.got

\* the wire cut into 18-byte blocks, the last one possibly shorter; a block
\* of two bytes or more ends in the CRC of the bytes before it
WireBlock(k) == Slice(wire, 18 * k, Min(18 * k + 18, Len(wire)))
BlockCrcWrong(k) ==
    LET blk == WireBlock(k)
        n == Len(blk)
    IN  /\ n >= 2
        /\ calculate_crc(Slice(blk, 0, n - 2)) # blk[n - 1] + 256 * blk[n]
SomeBlockCrcWrong == \E k \in 0..((Len(wire) + 17) \div 18 - 1) : BlockCrcWrong(k)

\* C16: fail-fast ordering.  parse_response verifies every block CRC before
\* it decodes any header: an input with at least one wrong block CRC gives
\* a checksum error that exposes no address, sequence number, function code
\* or object header.
C16_FailFast ==
    (pc = "parse_response" /\ SomeBlockCrcWrong)
        => /\ DOMAIN result = {"error"}
           /\ result.error.exc.msg \in {"CRC mismatch at block",
                                         "CRC mismatch in final block"}

\* a two-block read request whose first block is intact and whose second,
\* shorter block has a wrong CRC was answered with the error alone
C16_Witness ==
    /\ pc = "parse_response" /\ Built /\ Len(wire) > 18
    /\ ~BlockCrcWrong(0) /\ BlockCrcWrong(1)
    /\ DOMAIN result = {"error"}

\* C17: total, typed parsing.  For every byte sequence, intact, corrupted or
\* cut short, parse_response returns either a parsed frame or an error
\* result; no exception reaches the caller.
C17_TotalTyped ==
    pc = "parse_response"
        => \/ /\ DOMAIN result = {"error"}
              /\ result.error.msg \in FrameTooShort \cup {"Parse error"}
           \/ /\ DOMAIN result = {"data_link", "transport", "application", "objects"}
              /\ IsWord(result.data_link.source)
              /\ IsWord(result.data_link.destination)
              /\ result.transport.sequence \in 0..63
              /\ IsByte(result.application.function_code)

\* a read request that lost its last byte in transit was answered with an
\* error result
C17_Witness ==
    /\ pc = "parse_response" /\ Built /\ cut = 1
    /\ DOMAIN result = {"error"}
    /\ result.error.msg = "Parse error"

\* C18: caller-owned sequence numbers reach the wire.  A read through
\* _read_points sends one frame whose application control byte carries the
\* client's application sequence in its sequence bits and whose transport
\* byte carries the client's transport sequence in its low 6 bits.
C18_SequenceOnWire ==
    (/\ cpc = "returned" /\ call.op = "_read_points" /\ call.peer.tcp
     /\ call.args[3] + call.args[4] - 1 <= 255)
        => /\ Len(call.sent) = 1
           /\ LET frame == remove_crc_from_frame(call.sent[1]).value
              IN  /\ BitAnd[frame[10], 15] = self._app_sequence
                  /\ BitAnd[frame[9], 63] = self._sequence_number

\* C19: frame length invariant.  A frame built from n ranges is
\* 8 + 1 + 2 + 5n + 2 * ceil((11 + 5n) / 16) bytes long, with a CRC after
\* every 16 bytes of the assembled payload and after the final shorter block.
C19_FrameLength ==
    (pc = "create_read_request" /\ ~request.raised)
        => LET n == Len(request.objects)
               assembled == 8 + 1 + 2 + 5 * n
               blocks == (assembled + 15) \div 16
           IN  /\ Len(wire) = assembled + 2 * blocks
               /\ \A k \in 0..(blocks - 1) :
                      /\ Len(WireBlock(k)) = Min(16, assembled - 16 * k) + 2
                      /\ ~BlockCrcWrong(k)

\* a request for two ranges, 21 assembled bytes, came out as 25 bytes: a
\* full block and a block of 5 bytes, each with its CRC
C19_Witness ==
    /\ pc = "create_read_request" /\ ~request.raised
    /\ Len(request.objects) = 2
    /\ Len(wire) = 25
    /\ Len(WireBlock(1)) = 7 /\ ~BlockCrcWrong(1)

\* C20: data-link length field.  In every built frame the length byte is
\* the length of the frame without the start bytes and the CRC bytes (with
\* or without the length byte itself), and it fits in one byte.
C20_LengthField ==
    (pc = "create_read_request" /\ ~request.raised)
        => LET assembled == Len(remove_crc_from_frame(wire).value)
           IN  /\ IsByte(wire[3])
               /\ wire[3] \in {assembled - 2, assembled - 3}

\* C21: block structure of add_crc_to_frame.  For every payload p the output
\* is len(p) + 2 * ceil(len(p) / 16) bytes long and is, for each consecutive
\* 16-byte block of p (the last possibly shorter), the block followed by its
\* CRC as two bytes, low byte first; the empty payload gives the empty output.
C21_BlockStructure ==
    pc = "add_crc_to_frame"
        => LET n == Len(payload)
               blocks == (n + 15) \div 16
           IN  /\ Len(wire) = n + 2 * blocks
               /\ n = 0 => wire = <<>>
               /\ \A k \in 0..(blocks - 1) :
                      LET block == Slice(payload, 16 * k, Min(16 * k + 16, n))
                          crc == calculate_crc(block)
                      IN  WireBlock(k) = block \o <<(crc % 256), (crc \div 256)>>

\* a 17-byte payload came out as a full block and a one-byte block, each
\* followed by its CRC, whose two bytes differ
C21_Witness ==
    /\ pc = "add_crc_to_frame"
    /\ Len(payload) = 17 /\ Len(wire) = 21
    /\ WireBlock(1) = <<payload[17], wire[20], wire[21]>>
    /\ wire[20] # wire[21]

\* C27: canonical framing.  Whenever remove_crc_from_frame succeeds on an
\* input x with result b, x is add_crc_to_frame(b); an input with a single
\* trailing byte after the last complete block, or with a trailing CRC over
\* an empty block, is not accepted.
C27_CanonicalFraming ==
    (pc = "remove_crc_from_frame" /\ ~result.raised)
        => wire = add_crc_to_frame(result.value)

\* the public read operations, and the operations that never read
PublicReads == {"read_binary_inputs", "read_analog_inputs", "read_counters"}
NonReads == {"connect", "disconnect", "discover_devices", "write_binary_output",
             "cold_restart", "warm_restart", "enable_unsolicited"}
Advanced(before, after) ==
    /\ after._sequence_number = (before._sequence_number + 1) % 64
    /\ after._app_sequence = (before._app_sequence + 1) % 16
SameCounters(before, after) ==
    /\ after._sequence_number = before._sequence_number
    /\ after._app_sequence = before._app_sequence

\* C24: rolling sequence counters.  The transport counter stays in 0..63
\* and the application counter in 0..15; every run of _read_points, failed
\* or not, advances each by one with wrap-around to 0, and connect,
\* disconnect, discover, restart and write change neither.
C24_RollingCounters ==
    /\ self._sequence_number \in 0..63
    /\ self._app_sequence \in 0..15
    /\ cpc = "returned" =>
          /\ call.op = "_read_points" => Advanced(call.before, self)
          /\ call.op \in NonReads => SameCounters(call.before, self)
          /\ call.op \in PublicReads =>
                IF Logged("Error in raw point reading")
                THEN Advanced(call.before, self)
                ELSE SameCounters(call.before, self)

\* the 64th raw read wrapped the transport counter from 63 to 0 and the
\* application counter from 15 to 0
C24_Witness ==
    /\ cpc = "returned" /\ call.op = "_read_points"
    /\ call.before._sequence_number = 63 /\ self._sequence_number = 0
    /\ call.before._app_sequence = 15 /\ self._app_sequence = 0

\* what a point of the device reads as, per kind of point
Decoded(op, v) == IF op = "read_binary_inputs" THEN v = 1 ELSE v

\* C22: no placeholder values.  Every point returned by read_binary_inputs,
\* read_analog_inputs or read_counters carries the value the device holds,
\* decoded from its response; no point comes back with a fixed zero or
\* false that was not read from the response.
C22_NoPlaceholders ==
    (cpc = "returned" /\ call.op \in PublicReads /\ ~call.ret.none)
        => \A i \in 1..Len(call.ret.points) :
               call.ret.points[i].value = Decoded(call.op, call.peer.value)

\* requests written to a socket and not yet resolved by a response, a
\* timeout or an error, after the first n socket events of the call
Outstanding(n) ==
    Cardinality({i \in 1..n : call.events[i] = "send"})
        - Cardinality({i \in 1..n : call.events[i] \in {"recv", "timeout", "error"}})

ServiceCode ==
    ("cold_restart" :> COLD_RESTART) @@ ("warm_restart" :> WARM_RESTART)
        @@ ("enable_unsolicited" :> ENABLE_UNSOLICITED)
        @@ ("write_binary_output" :> WRITE)

\* C26: per-service request builders.  With the raw protocol implementation
\* and a connected client, cold restart, warm restart, enable unsolicited
\* and write binary output each send a frame with valid per-block CRCs, the
\* start bytes 05 64 and the function code of the service.
C26_ServiceFrames ==
    (/\ cpc = "returned" /\ call.op \in DOMAIN ServiceCode
     /\ ~PYDNP3_AVAILABLE /\ self._connected)
        => \E i \in 1..Len(call.sent) :
               LET frame == remove_crc_from_frame(call.sent[i])
               IN  /\ ~frame.raised
                   /\ Len(frame.value) >= 11
                   /\ frame.value[1] = 5 /\ frame.value[2] = 100
                   /\ frame.value[11] = ServiceCode[call.op]

\* connect() reached the raw connection test, and the device's part in it
RawTested == cpc = "returned" /\ call.op = "connect"
                 /\ ~PYDNP3_AVAILABLE /\ call.peer.tcp # "refused"
NonEmptyReply == call.peer.tcp = "ok" /\ call.peer.recv = "data"
                     /\ Len(call.peer.response) > 0

\* C28: raw connect outcome.  The raw connection test returns true and marks
\* the client connected if and only if a non-empty response arrives before
\* the timeout, whether or not it parses as a DNP3 frame; on an empty
\* response, a timeout or a socket error it returns false and leaves the
\* connected flag as it was.
C28_RawConnectOutcome ==
    RawTested
        => /\ call.ret = NonEmptyReply
           /\ NonEmptyReply => self._connected
           /\ ~NonEmptyReply => self._connected = call.before._connected

\* three bytes that are no DNP3 frame came back, and the client is connected
C28_Witness ==
    /\ RawTested /\ call.peer.response = <<1, 2, 3>>
    /\ ~call.before._connected
    /\ call.ret = TRUE /\ self._connected
    /\ Logged("Received response but parsing failed")

\* the k-th address of a scan answers a connect: the library connects, or
\* the raw test gets a non-empty response to a request it could build
Scanned == cpc = "returned" /\ call.op = "discover_devices"
Found(k) ==
    LET d == call.peer[k]
    IN  /\ d.tcp # "refused"
        /\ \/ PYDNP3_AVAILABLE /\ d.pydnp3 = "ok"
           \/ /\ d.tcp = "ok" /\ d.recv = "data" /\ Len(d.response) > 0
              /\ IsWord(call.args[1][k])
FoundIndexes == {k \in 1..Len(call.args[1]) : Found(k)}

\* C29: discover_devices leaves the client as it found it.  After the scan
\* remote_address has its value from before the call, the scan has not left
\* the client marked connected, and the returned list holds exactly the
\* addresses whose connect succeeded, in range order.
C29_DiscoverRestores ==
    Scanned
        => /\ self._remote_address = call.before._remote_address
           /\ self._local_address = call.before._local_address
           /\ IF FoundIndexes = {} THEN self._connected = call.before._connected
              ELSE ~self._connected
           /\ Len(call.ret) = Cardinality(FoundIndexes)
           /\ \A k \in FoundIndexes :
                  call.ret[Cardinality({i \in FoundIndexes : i <= k})] = call.args[1][k]

\* a scan of addresses 1 and 2 found a device at 2 only; the client has its
\* remote address 10 again and is not connected
C29_Witness ==
    /\ Scanned /\ call.args[1] = <<1, 2>>
    /\ ~Found(1) /\ Found(2)
    /\ call.ret = <<2>>
    /\ self._remote_address = 10 /\ ~self._connected

\* the last ClientManager call was a use_client or create_client that failed
FailedLoad == mcall.op \in {"use_client", "create_client"} /\ ~mcall.ok
\* the last ClientManager call removed the client that was the current one
RemovedCurrent ==
    /\ mcall.op = "remove_client" /\ mcall.ok
    /\ mcall.before.current_client = mcall.removed

\* C30: after any sequence of use_client, create_client, set_current_client,
\* back, remove_client and cleanup_all_clients, failed loads, unknown types
\* and reused names included, current_client is None or one of the values
\* stored in clients; after the current client was removed current_client
\* is not the removed instance; and a failed use_client or create_client
\* leaves clients and current_client as they were
C30_SelectionInvariant ==
    /\ current_client = NoClient \/ current_client \in dict_values(clients)
    /\ RemovedCurrent => current_client # mcall.removed
    /\ FailedLoad => /\ clients = mcall.before.clients
                     /\ current_client = mcall.before.current_client

\* the current client was removed while another was stored, and the first of
\* the remaining clients became the current one
C30_Witness ==
    /\ RemovedCurrent
    /\ clients # <<>>
    /\ current_client = clients[1].value
    /\ mcall.removed \notin dict_values(clients)

\* what the call of thread t returns when it runs alone
Alone(t) ==
    IF tcall[t].op = "add_crc_to_frame"
    THEN Returned(add_crc_to_frame(tcall[t].data))
    ELSE remove_crc_from_frame(tcall[t].data)

=============================================================================
